---- MODULE Spec2Model ----
(***************************************************************************)
(* A model of src/src/strategies/nn_ratios.py: the NNRatios strategy.      *)
(*                                                                         *)
(* The strategy panel is a sequence of rows (the DataFrame's rows in their *)
(* order), at most one for a (ticker, date); each row carries a price and  *)
(* one accounting ratio (the eleven columns_x are collapsed into one       *)
(* column, which may be missing).  A missing value is the empty sequence   *)
(* NaN, a present value v is <<v>>.                                        *)
(*                                                                         *)
(* Numbers: predictions are integers; the cutoffs (median and quantiles)   *)
(* are kept exactly in units of 1/QScale; portfolio weights are kept       *)
(* exactly in units of 1/WScale; returns are exact fractions <<n, d>>.     *)
(***************************************************************************)
EXTENDS Integers, Sequences, FiniteSets

(* ------------------------------ bounds --------------------------------- *)
NumTickers == 4
NumDates == 2
MaxPrice == 2
MaxRatio == 1
MaxRows == 2

Tickers == 1..NumTickers
Dates == 1..NumDates
Prices == 1..MaxPrice
NaN == <<>>
Ratios == {NaN} \cup {<<v>> : v \in 0..MaxRatio}
Rows == [ticker : Tickers, date : Dates, price : Prices, ratio : Ratios]

\* The rows of a single-date panel: one cross-section, every price 1.
CrossSectionRows == {r \in Rows : r.date = NumDates /\ r.price = 1}

\* The values of available_tickers: the tickers up to some number.
AvailableSets == {1..k : k \in 0..NumTickers}

(* ------------------------- small arithmetic ---------------------------- *)
Max(a, b) == IF a >= b THEN a ELSE b
Min(a, b) == IF a <= b THEN a ELSE b

RECURSIVE Gcd(_, _)
Gcd(a, b) == IF b = 0 THEN a ELSE Gcd(b, a % b)

RECURSIVE LcmUpTo(_)
LcmUpTo(n) == IF n <= 1 THEN 1 ELSE (LcmUpTo(n - 1) * n) \div Gcd(LcmUpTo(n - 1), n)

\* Unit of the portfolio weights: 1/number_long and -1/number_short are
\* exact multiples of 1/WScale for every bucket size up to NumTickers.
WScale == LcmUpTo(NumTickers)

\* Unit of the cutoffs: the interpolation fractions of the .125/.25/.75/.875
\* quantiles and of the median are multiples of 1/8.
QScale == 8

(* ------------------ NNRatiosRegression (lines 18-35) ------------------- *)
\* The network's weights: layer_1 (w1, b1) and layer_2 (w2, b2), with a
\* hidden layer of one unit.  The first keeps the order of the ratios 0, 1, 2;
\* the second reverses it and saturates (ratios 1 and 2 give the same
\* prediction).
Weights == { [w1 |-> 1, b1 |-> -1, w2 |-> 1, b2 |-> 0],
             [w1 |-> 1, b1 |-> 0, w2 |-> -1, b2 |-> 1] }

\* nn.Tanh on integers: odd, monotone, saturating at -1 and 1.
Activation(v) == Max(-1, Min(1, v))

\* forward: layer_2(activation(layer_1(x))).
Forward(w, x) == w.w2 * Activation(w.w1 * x + w.b1) + w.b2

(* ---------------------- NNRatios.__init__ ------------------------------ *)
\* The constructor without the assertion of line 110.
ConstructionSucceedsAlways(rule) == TRUE

\* The values NNCFG.decision_rule may be configured with.
RuleConfigs == {"median", "quartile", "octile", "decile"}

\* The list of the assertion of line 110.
ValidRules == {"median", "quartile", "octile"}

ConstructionSucceeds(rule) == rule \in ValidRules

VARIABLES
  constructed,        \* the constructor returned (its assertion held)
  decision_rule,      \* self.decision_rule
  train_interval,     \* self.train_interval
  model,              \* self.model: the network's weights
  fit_invoked,        \* self.trainer.fit has been invoked
  strategy_data,      \* the panel the caller holds / passed to the last call
  available_tickers,  \* the available_tickers of the last call
  outcome,            \* of the last call: none, returned, prep_raised,
                      \* split_raised, fit_raised, score_raised
  prepared,           \* the last call took the branch of line 152
  train_set,          \* the frame _prepare_data built in the last call
  preds,              \* the predictions of the last call, by ticker
  cutoffs,            \* upper_cutoff and lower_cutoff of the last call
  portfolio           \* the dict returned by the last call

vars == <<constructed, decision_rule, train_interval, model, fit_invoked,
          strategy_data, available_tickers, outcome, prepared, train_set,
          preds,
          cutoffs, portfolio>>

instance == <<constructed, decision_rule, train_interval, model, fit_invoked>>

Unbound == [state |-> "unbound", upper |-> 0, lower |-> 0]
NanCutoffs == [state |-> "nan", upper |-> 0, lower |-> 0]
NoPortfolio == <<>>

(* ------------------- _prepare_data (lines 135-147) --------------------- *)
\* The rows of a frame, as a set.
RowSet(frame) == {frame[i] : i \in DOMAIN frame}

\* The frame without its row i.
WithoutRow(frame, i) == SubSeq(frame, 1, i - 1) \o SubSeq(frame, i + 1, Len(frame))

\* strategy_data['ticker'].unique(): the tickers that have a row, in the
\* order of their first appearance in the panel.
RECURSIVE UniqueTickers(_)
UniqueTickers(sd) ==
  IF Len(sd) = 0 THEN <<>>
  ELSE LET before == UniqueTickers(SubSeq(sd, 1, Len(sd) - 1))
           ticker == sd[Len(sd)].ticker
       IN IF \E i \in DOMAIN before : before[i] = ticker
            THEN before
            ELSE Append(before, ticker)

\* strategy_data[strategy_data['ticker'] == ticker]
TickerRows(sd, t) == SelectSeq(sd, LAMBDA r : r.ticker = t)

\* sort_values(by=['date']): the rows with their dates ascending (a ticker
\* has one row for a date).
RECURSIVE SortByDate(_)
SortByDate(rows) ==
  IF Len(rows) = 0 THEN <<>>
  ELSE LET first == CHOOSE i \in DOMAIN rows :
                      \A j \in DOMAIN rows : rows[i].date <= rows[j].date
       IN <<rows[first]>> \o SortByDate(WithoutRow(rows, first))

\* Series.diff(): element i minus element i-1, NaN for the first.
Diff(col) == [i \in 1..Len(col) |-> IF i = 1 THEN NaN ELSE <<col[i] - col[i - 1]>>]

\* Series.shift(-1): element i becomes element i+1, NaN for the last.
ShiftBack(col) == [i \in 1..Len(col) |-> IF i = Len(col) THEN NaN ELSE col[i + 1]]

\* lambda x: x['next_price'] / x['price'] - 1, as an exact fraction <<n, d>>;
\* NaN propagates.
ReturnOf(next_price, price) ==
  IF next_price = NaN THEN NaN
  ELSE LET quotient == <<next_price[1], price>>
       IN <<quotient[1] - quotient[2], quotient[2]>>

\* The frame of one ticker after lines 139-141, before fillna.
WithReturn(sorted) ==
  LET next_price == ShiftBack(Diff([i \in 1..Len(sorted) |-> sorted[i].price]))
  IN [i \in 1..Len(sorted) |->
        [ticker |-> sorted[i].ticker, date |-> sorted[i].date,
         price |-> sorted[i].price, ratio |-> sorted[i].ratio,
         next_price |-> next_price[i],
         return |-> ReturnOf(next_price[i], sorted[i].price)]]

\* dropna() in place of fillna(0): the rows with a missing value are removed.
RECURSIVE DropNa(_)
DropNa(frame) ==
  IF Len(frame) = 0 THEN <<>>
  ELSE LET row == Head(frame)
           complete == row.ratio # NaN /\ row.next_price # NaN /\ row.return # NaN
       IN (IF complete THEN <<row>> ELSE <<>>) \o DropNa(Tail(frame))

\* fillna(0): every missing value of the frame becomes 0.
FillNa(frame) ==
  [i \in 1..Len(frame) |->
     [frame[i] EXCEPT !.ratio = IF @ = NaN THEN <<0>> ELSE @,
                      !.next_price = IF @ = NaN THEN <<0>> ELSE @,
                      !.return = IF @ = NaN THEN <<0, 1>> ELSE @]]

\* The loop of lines 137-143 over the tickers still to do, in the order of
\* unique(); new_df is the concatenation of the per-ticker frames.
RECURSIVE ConcatFrames(_, _)
ConcatFrames(sd, todo) ==
  IF Len(todo) = 0 THEN <<>>
  ELSE LET ticker == Head(todo)
       IN FillNa(WithReturn(SortByDate(TickerRows(sd, ticker))))
            \o ConcatFrames(sd, Tail(todo))

\* new_df; train_x and train_y are its columns ratio and return.
PrepareData(sd) == ConcatFrames(sd, UniqueTickers(sd))

TrainX(frame) == [i \in 1..Len(frame) |-> frame[i].ratio[1]]
TrainY(frame) == [i \in 1..Len(frame) |-> frame[i].return]

(* ----------------------- DataModule (lines 58-69) ----------------------- *)
\* train_test_split (line 69) raises ValueError when it would leave the
\* training sample empty: with no sample, and with one sample, which goes to
\* the validation part whatever NNCFG.val_size is.  From two samples on,
\* a val_size of at most one half leaves a training sample.
TrainTestSplitRaises(train_x, train_y) == Len(train_x) < 2

(* ----------------- create_portfolio, scoring (158-195) ----------------- *)
\* max(strategy_data['date'].unique()), for a panel with at least one row.
LatestDate(sd) ==
  CHOOSE d \in {r.date : r \in RowSet(sd)} : \A r \in RowSet(sd) : r.date <= d

\* Lines 160-161 without the isin(available_tickers) filter.
LatestDataAnyTicker(sd, available) ==
  {r \in RowSet(sd) : r.date = LatestDate(sd) /\ r.ratio # NaN}

\* Lines 160-161: the rows of the latest date whose ticker is available,
\* without those that have a missing value (dropna).
LatestData(sd, available) ==
  {r \in RowSet(sd) :
     r.date = LatestDate(sd) /\ r.ticker \in available /\ r.ratio # NaN}

\* Lines 163-169: the prediction of every scored ticker.
Predict(w, latest_data) ==
  [t \in {r.ticker : r \in latest_data} |->
     Forward(w, (CHOOSE r \in latest_data : r.ticker = t).ratio[1])]

\* The predictions in ascending order (the sort inside np.median and
\* np.quantile).
RECURSIVE SortedValues(_, _)
SortedValues(p, todo) ==
  IF todo = {} THEN <<>>
  ELSE LET least == CHOOSE t \in todo : \A u \in todo : p[t] <= p[u]
       IN <<p[least]>> \o SortedValues(p, todo \ {least})

\* The upper of the two middle values in place of their mean.
MedianUpper(s) == QScale * s[Len(s) \div 2 + 1]

\* np.median of a non-empty sorted sample, in units of 1/QScale: the middle
\* value, or the mean of the two middle values.
Median(s) ==
  LET n == Len(s)
  IN IF n % 2 = 1 THEN QScale * s[(n + 1) \div 2]
     ELSE (QScale \div 2) * (s[n \div 2] + s[n \div 2 + 1])

\* np.quantile(_, eighths/8) of a non-empty sorted sample with the default
\* linear interpolation, in units of 1/QScale: the virtual index is
\* q * (n - 1); the result lies between the two neighbouring order statistics.
Quantile(s, eighths) ==
  LET n == Len(s)
      pos == eighths * (n - 1)
      below == pos \div QScale + 1
      above == Min(below + 1, n)
      gamma == pos % QScale
  IN QScale * s[below] + gamma * (s[above] - s[below])

\* Lines 171-181: the if/elif chain.  np.median of an empty sample is nan;
\* a rule outside the chain leaves both names unbound.
Cutoffs(rule, s) ==
  IF rule = "median"
    THEN IF Len(s) = 0 THEN NanCutoffs
         ELSE [state |-> "num", upper |-> Median(s), lower |-> Median(s)]
  ELSE IF rule = "quartile"
    THEN [state |-> "num", upper |-> Quantile(s, 6), lower |-> Quantile(s, 2)]
  ELSE IF rule = "octile"
    THEN [state |-> "num", upper |-> Quantile(s, 7), lower |-> Quantile(s, 1)]
  ELSE Unbound

\* The number 1 of the prediction column, in units of 1/WScale.
One == WScale

\* Line 183, with >= and <= in place of > and <.
ClassifyInclusive(x, c) ==
  IF c.state = "num" /\ QScale * x >= c.upper THEN One
  ELSE IF c.state = "num" /\ QScale * x <= c.lower THEN -One
  ELSE 0

\* Line 183: 1 if x > upper_cutoff else -1 if x < lower_cutoff else 0
\* (every comparison with nan is false).
Classify(x, c) ==
  IF c.state = "num" /\ QScale * x > c.upper THEN One
  ELSE IF c.state = "num" /\ QScale * x < c.lower THEN -One
  ELSE 0

\* Lines 186-187: the rows equal to 1, the rows equal to -1.
NumberLong(column) == Cardinality({t \in DOMAIN column : column[t] = One})
NumberShort(column) == Cardinality({t \in DOMAIN column : column[t] = -One})

\* Lines 189-190 writing to every row that is not -1.
NormalizeLongWide(column, number_long) ==
  IF number_long > 0
    THEN [t \in DOMAIN column |->
            IF column[t] # -One THEN One \div number_long ELSE column[t]]
    ELSE column

\* Lines 189-190: the rows equal to 1 become 1 / number_long.
NormalizeLong(column, number_long) ==
  IF number_long > 0
    THEN [t \in DOMAIN column |->
            IF column[t] = One THEN One \div number_long ELSE column[t]]
    ELSE column

\* Lines 192-193 dividing by the number of rows of the frame.
NormalizeShortByAll(column, number_short) ==
  IF number_short > 0
    THEN [t \in DOMAIN column |->
            IF column[t] = -One THEN -(One \div Cardinality(DOMAIN column))
            ELSE column[t]]
    ELSE column

\* Lines 192-193: the rows equal to -1 become -1 / number_short.
NormalizeShort(column, number_short) ==
  IF number_short > 0
    THEN [t \in DOMAIN column |->
            IF column[t] = -One THEN -(One \div number_short) ELSE column[t]]
    ELSE column

\* Lines 183-195: the dict returned for the predictions p and cutoffs c.
Bucket(p, c) ==
  LET column == [t \in DOMAIN p |-> Classify(p[t], c)]
      number_long == NumberLong(column)
      number_short == NumberShort(column)
  IN NormalizeShort(NormalizeLong(column, number_long), number_short)

(* --------------------- create_portfolio, training ---------------------- *)
\* Line 152: the model is trained when the flag is set.
ShouldTrainAlways(flag) == TRUE

ShouldTrain(flag) == flag

\* Line 156 run whether or not fit returned.
FlagAfterFitAlwaysCleared(fit_returned) == FALSE

\* Lines 155-156: train_interval after the call of fit; the assignment is
\* reached only when fit returns.
FlagAfterFit(fit_returned) == IF fit_returned THEN FALSE ELSE TRUE


\* np.quantile of an empty sample raises IndexError (lines 176, 180).
QuantileRaises(rule, s) == rule \in {"quartile", "octile"} /\ Len(s) = 0

\* Lines 158-195 with the weights w: what the call ends with.
Score(w, rule, sd, available) ==
  IF Len(sd) = 0
    THEN \* line 159: max() of an empty sequence raises ValueError
         [outcome |-> "score_raised", preds |-> <<>>, cutoffs |-> Unbound,
          portfolio |-> NoPortfolio]
  ELSE
    LET p == Predict(w, LatestData(sd, available))
        s == SortedValues(p, DOMAIN p)
    IN IF QuantileRaises(rule, s)
         THEN [outcome |-> "score_raised", preds |-> p, cutoffs |-> Unbound,
               portfolio |-> NoPortfolio]
       ELSE IF Cutoffs(rule, s).state = "unbound" /\ Len(s) > 0
         THEN \* line 183 reads a name no branch has bound
              [outcome |-> "score_raised", preds |-> p, cutoffs |-> Unbound,
               portfolio |-> NoPortfolio]
       ELSE [outcome |-> "returned", preds |-> p, cutoffs |-> Cutoffs(rule, s),
             portfolio |-> Bucket(p, Cutoffs(rule, s))]

(* ------------------------------ the system ----------------------------- *)
\* The state after NNRatios() (lines 107-133): the assertion of line 110
\* decides whether an instance exists; the network starts with arbitrary
\* weights; no call has been made.
Init ==
  /\ decision_rule \in RuleConfigs
  /\ constructed = ConstructionSucceeds(decision_rule)
  /\ train_interval = TRUE
  /\ model \in Weights
  /\ fit_invoked = FALSE
  /\ strategy_data = <<>>
  /\ available_tickers = {}
  /\ outcome = "none"
  /\ prepared = FALSE
  /\ train_set = <<>>
  /\ preds = <<>>
  /\ cutoffs = Unbound
  /\ portfolio = NoPortfolio

call == <<available_tickers, outcome, prepared, train_set, preds, cutoffs,
         portfolio>>

\* The caller's panel gains, as its last row, the row of a (ticker, date)
\* it has not yet.
AddRow(row) ==
  /\ constructed
  /\ outcome = "none"
  /\ \A r \in RowSet(strategy_data) : r.ticker # row.ticker \/ r.date # row.date
  /\ strategy_data' = Append(strategy_data, row)
  /\ UNCHANGED <<instance, call>>

\* A panel of at most MaxRows rows, of any dates and prices, in any order.
Observe(row) ==
  /\ Len(strategy_data) < MaxRows
  /\ AddRow(row)

\* A panel of one cross-section, of any number of tickers, listed by ticker.
ObserveCrossSection(row) ==
  /\ \A r \in RowSet(strategy_data) : r.ticker < row.ticker
  /\ AddRow(row)

\* The caller's panel loses its row i.
Forget(i) ==
  /\ constructed
  /\ outcome = "none"
  /\ strategy_data' = WithoutRow(strategy_data, i)
  /\ UNCHANGED <<instance, call>>

\* The caller is done with the last call: its locals and its return value
\* (or its exception) are gone.
Consume ==
  /\ outcome # "none"
  /\ available_tickers' = {}
  /\ outcome' = "none"
  /\ prepared' = FALSE
  /\ train_set' = <<>>
  /\ preds' = <<>>
  /\ cutoffs' = Unbound
  /\ portfolio' = NoPortfolio
  /\ UNCHANGED <<instance, strategy_data>>

\* The call ends as Score says, with the weights w.
Finish(w, available) ==
  LET end == Score(w, decision_rule, strategy_data, available)
  IN /\ outcome' = end.outcome
     /\ preds' = end.preds
     /\ cutoffs' = end.cutoffs
     /\ portfolio' = end.portfolio

\* The call ends with an exception raised before the scoring.
Raise(how) ==
  /\ outcome' = how
  /\ preds' = <<>>
  /\ cutoffs' = Unbound
  /\ portfolio' = NoPortfolio

\* create_portfolio(strategy_data, available_tickers), lines 150-195.
CreatePortfolio(available) ==
  /\ constructed
  /\ outcome = "none"
  /\ available_tickers' = available
  /\ UNCHANGED <<constructed, decision_rule, strategy_data>>
  /\ IF ShouldTrain(train_interval)
       THEN LET frame == PrepareData(strategy_data)
            IN /\ prepared' = TRUE
               /\ train_set' = frame
               /\ IF Len(frame) = 0
                    THEN \* line 145: new_df has no column 'return'
                         /\ Raise("prep_raised")
                         /\ UNCHANGED <<train_interval, model, fit_invoked>>
                  ELSE IF TrainTestSplitRaises(TrainX(frame), TrainY(frame))
                    THEN \* line 154: DataModule raises before fit is called
                         /\ Raise("split_raised")
                         /\ UNCHANGED <<train_interval, model, fit_invoked>>
                    ELSE /\ fit_invoked' = TRUE
                         /\ \E fit_returned \in BOOLEAN, w \in Weights :
                              /\ model' = w
                              /\ train_interval' = FlagAfterFit(fit_returned)
                              /\ IF fit_returned
                                   THEN Finish(w, available)
                                   ELSE Raise("fit_raised")
       ELSE /\ prepared' = FALSE
            /\ train_set' = <<>>
            /\ UNCHANGED <<train_interval, model, fit_invoked>>
            /\ Finish(model, available)

Next ==
  \/ \E row \in Rows : Observe(row)
  \/ \E i \in DOMAIN strategy_data : Forget(i)
  \/ Consume
  \/ \E available \in AvailableSets : CreatePortfolio(available)

\* The strategy called with panels of any dates and prices.
Spec == Init /\ [][Next]_vars

NextCross ==
  \/ \E row \in CrossSectionRows : ObserveCrossSection(row)
  \/ \E i \in DOMAIN strategy_data : Forget(i)
  \/ Consume
  \/ \E available \in AvailableSets : CreatePortfolio(available)

\* The strategy called with single-date panels of up to NumTickers tickers.
SpecCross == Init /\ [][NextCross]_vars


(* ------------------------------ properties ----------------------------- *)
RECURSIVE SumOver(_, _)
SumOver(f, S) ==
  IF S = {} THEN 0
  ELSE LET t == CHOOSE u \in S : TRUE IN f[t] + SumOver(f, S \ {t})

\* The sum of the positive weights and of the negative weights returned.
PositiveSum == SumOver(portfolio, {t \in DOMAIN portfolio : portfolio[t] > 0})
NegativeSum == SumOver(portfolio, {t \in DOMAIN portfolio : portfolio[t] < 0})

\* The tickers whose prediction is strictly above the upper cutoff, and those
\* whose prediction is strictly below the lower cutoff.
LongSet ==
  {t \in DOMAIN preds : cutoffs.state = "num" /\ QScale * preds[t] > cutoffs.upper}
ShortSet ==
  {t \in DOMAIN preds : cutoffs.state = "num" /\ QScale * preds[t] < cutoffs.lower}

Returned == outcome = "returned"

PairwiseDistinct ==
  \A t, u \in DOMAIN preds : t # u => preds[t] # preds[u]

\* C1: in every returned portfolio each long ticker weighs 1/number_long and
\* each short ticker weighs -1/number_short, so the positive weights sum to 1
\* when there is a long and the negative weights to -1 when there is a short.
C1Theorem ==
  Returned =>
    /\ \A t \in LongSet : portfolio[t] * Cardinality(LongSet) = WScale
    /\ \A t \in ShortSet : portfolio[t] * Cardinality(ShortSet) = -WScale
    /\ LongSet # {} => PositiveSum = WScale
    /\ ShortSet # {} => NegativeSum = -WScale

C1Witness ==
  /\ Returned
  /\ Cardinality(LongSet) = 2
  /\ Cardinality(ShortSet) = 2
  /\ \A t \in LongSet : 2 * portfolio[t] = WScale

\* C2 as claimed: every returned portfolio of at least two tickers has
\* positive weights that sum to 1 and negative weights that sum to -1.
C2Claim ==
  (Returned /\ Cardinality(DOMAIN portfolio) >= 2) =>
    (PositiveSum = WScale /\ NegativeSum = -WScale)

\* C2 as amended: a returned portfolio of at least two tickers has positive
\* weights that sum to 1, negative weights that sum to -1 and weights that sum
\* to 0 whenever some prediction is strictly above the upper cutoff and some
\* prediction strictly below the lower cutoff, which is the case whenever the
\* predictions are pairwise distinct.
C2Theorem ==
  (Returned /\ Cardinality(DOMAIN portfolio) >= 2) =>
    /\ PairwiseDistinct => (LongSet # {} /\ ShortSet # {})
    /\ (LongSet # {} /\ ShortSet # {}) =>
         /\ PositiveSum = WScale
         /\ NegativeSum = -WScale
         /\ SumOver(portfolio, DOMAIN portfolio) = 0

C2Witness ==
  /\ Returned
  /\ Cardinality(DOMAIN portfolio) = 2
  /\ PairwiseDistinct
  /\ decision_rule = "quartile"
  /\ PositiveSum = WScale
  /\ NegativeSum = -WScale

\* The cutoffs the decision rule names, for the predictions of the call.
RuleUpper ==
  LET s == SortedValues(preds, DOMAIN preds)
  IN CASE decision_rule = "median" -> Quantile(s, 4)
       [] decision_rule = "quartile" -> Quantile(s, 6)
       [] decision_rule = "octile" -> Quantile(s, 7)
RuleLower ==
  LET s == SortedValues(preds, DOMAIN preds)
  IN CASE decision_rule = "median" -> Quantile(s, 4)
       [] decision_rule = "quartile" -> Quantile(s, 2)
       [] decision_rule = "octile" -> Quantile(s, 1)

\* C5: a scored ticker is long iff its prediction is strictly above the upper
\* cutoff of the rule and short iff it is strictly below the lower cutoff
\* (the .5/.5, .75/.25, .875/.125 quantiles); no ticker is both.
C5Theorem ==
  (Returned /\ DOMAIN preds # {}) =>
    \A t \in DOMAIN preds :
      /\ portfolio[t] > 0 <=> QScale * preds[t] > RuleUpper
      /\ portfolio[t] < 0 <=> QScale * preds[t] < RuleLower
      /\ ~(QScale * preds[t] > RuleUpper /\ QScale * preds[t] < RuleLower)

C5Witness ==
  /\ Returned
  /\ decision_rule = "octile"
  /\ Cardinality(DOMAIN preds) = 4
  /\ \E t, v \in DOMAIN preds :
       /\ portfolio[t] > 0
       /\ QScale * preds[t] > RuleUpper
       /\ portfolio[v] = 0
       /\ QScale * preds[v] = RuleLower

\* C6: a scored ticker whose prediction lies between the lower and the upper
\* cutoff, both included, has weight 0 in the returned portfolio.
C6Theorem ==
  Returned =>
    /\ DOMAIN portfolio = DOMAIN preds
    /\ \A t \in DOMAIN preds :
         (cutoffs.state = "num" /\ cutoffs.lower <= QScale * preds[t]
            /\ QScale * preds[t] <= cutoffs.upper) => portfolio[t] = 0

C6Witness ==
  /\ Returned
  /\ decision_rule = "median"
  /\ ShortSet # {}
  /\ \E t, u \in DOMAIN preds :
       /\ t # u
       /\ QScale * preds[t] = cutoffs.upper /\ portfolio[t] = 0
       /\ QScale * preds[u] = cutoffs.upper /\ portfolio[u] = 0

\* C7: the keys of the returned portfolio are the available tickers that have
\* a row without a missing value on the latest date of the whole panel.
C7Theorem ==
  Returned =>
    DOMAIN portfolio =
      {t \in available_tickers :
         \E r \in RowSet(strategy_data) :
           /\ r.ticker = t
           /\ r.ratio # NaN
           /\ \A q \in RowSet(strategy_data) : q.date <= r.date}

C7Witness ==
  /\ Returned
  /\ prepared
  /\ DOMAIN portfolio # {}
  /\ \E r \in RowSet(strategy_data) :
       /\ r.ticker \in available_tickers
       /\ r.ticker \notin DOMAIN portfolio
       /\ r.ratio # NaN
       /\ \E q \in RowSet(strategy_data) : q.date > r.date

\* Row i of the frame is followed by a row of the same ticker.
HasNextRow(i) ==
  i < Len(train_set) /\ train_set[i + 1].ticker = train_set[i].ticker

\* C4 as claimed: the target of a row that has a following row of its ticker
\* is (p[t+1] - p[t]) / p[t].
C4Claim ==
  prepared =>
    \A i \in 1..Len(train_set) :
      HasNextRow(i) =>
        TrainY(train_set)[i][1] * train_set[i].price
          = (train_set[i + 1].price - train_set[i].price) * TrainY(train_set)[i][2]

\* C9: the frame _prepare_data returns has exactly one row for every row of
\* the panel, and the last-dated row of every ticker has target 0.
C9Theorem ==
  prepared =>
    /\ Len(train_set) = Len(strategy_data)
    /\ Len(TrainX(train_set)) = Len(TrainY(train_set))
    /\ \A r \in RowSet(strategy_data) :
         \E i \in 1..Len(train_set) :
           /\ train_set[i].ticker = r.ticker
           /\ train_set[i].date = r.date
           /\ (\A q \in RowSet(strategy_data) :
                 q.ticker = r.ticker => q.date <= r.date)
                => TrainY(train_set)[i][1] = 0

C9Witness ==
  /\ prepared
  /\ Len(train_set) = 2
  /\ HasNextRow(1)
  /\ TrainY(train_set)[1][1] # 0
  /\ TrainY(train_set)[2][1] = 0
  /\ \E r \in RowSet(strategy_data) : r.ratio = NaN

\* A step that is a call of create_portfolio, and one in which fit is invoked.
CallStep == outcome = "none" /\ outcome' # "none"
FitStep == CallStep /\ prepared' /\ outcome' \notin {"prep_raised", "split_raised"}

\* C3 as claimed: fit is invoked on the first call only (never once it has
\* been invoked), and train_interval, once False, stays False with the
\* weights unchanged.
C3Claim ==
  [][ /\ FitStep => ~fit_invoked
      /\ ~train_interval => (~train_interval' /\ model' = model) ]_vars

\* A call that raised in the training branch before fit was invoked.
RaisedBeforeFit == outcome' \in {"prep_raised", "split_raised"}

\* C3 as amended: every call made while train_interval is True takes the
\* training branch, and invokes fit when its panel has at least two rows; on
\* a smaller panel it raises before fit with train_interval still True and the
\* weights unchanged.  No call made while train_interval is False invokes fit;
\* train_interval becomes False exactly when fit returns and then stays False,
\* and every later call leaves the weights unchanged.
C3Theorem ==
  [][ /\ ~train_interval => (~train_interval' /\ model' = model /\ ~FitStep)
      /\ (train_interval /\ ~train_interval') => (FitStep /\ outcome' # "fit_raised")
      /\ (FitStep /\ outcome' # "fit_raised") => ~train_interval'
      /\ (CallStep /\ train_interval) => prepared'
      /\ (CallStep /\ train_interval /\ Len(strategy_data) >= 2) => FitStep
      /\ (CallStep /\ train_interval /\ Len(strategy_data) < 2) =>
           (RaisedBeforeFit /\ train_interval' /\ model' = model
              /\ fit_invoked' = fit_invoked)
      /\ FitStep => fit_invoked' ]_vars

C3Witness ==
  /\ Returned
  /\ ~prepared
  /\ ~train_interval
  /\ fit_invoked
  /\ DOMAIN portfolio # {}

\* C8: when fit raises, train_interval stays True and the next call takes the
\* training branch again (invoking fit again when its panel can be split);
\* when the call fails after fit has returned, train_interval is already
\* False and no later call trains.
C8Theorem ==
  [][ /\ (CallStep /\ outcome' = "fit_raised") => (train_interval' /\ FitStep)
      /\ (CallStep /\ train_interval /\ fit_invoked) => prepared'
      /\ (CallStep /\ train_interval /\ fit_invoked /\ Len(strategy_data) >= 2)
           => FitStep
      /\ (CallStep /\ outcome' = "score_raised") => ~train_interval'
      /\ (CallStep /\ ~train_interval) => (~FitStep /\ ~train_interval') ]_vars

C8Witness ==
  /\ outcome = "score_raised"
  /\ prepared
  /\ ~train_interval
  /\ Len(strategy_data) >= 2

\* A call that got past the training step.
PastTraining == outcome \in {"returned", "score_raised"}

\* C10 as claimed: an instance exists only for one of the three rules, and
\* every call that reaches the classification step has both cutoffs defined
\* with lower_cutoff <= upper_cutoff.
C10Claim ==
  /\ constructed => decision_rule \in {"median", "quartile", "octile"}
  /\ Returned => (cutoffs.state = "num" /\ cutoffs.lower <= cutoffs.upper)

\* C10 as amended: an instance exists only for one of the three rules, and
\* every call that scores at least one ticker reaches the classification step
\* with both cutoffs defined and lower_cutoff <= upper_cutoff.
C10Theorem ==
  /\ constructed => decision_rule \in {"median", "quartile", "octile"}
  /\ (PastTraining /\ DOMAIN preds # {}) =>
       (Returned /\ cutoffs.state = "num" /\ cutoffs.lower <= cutoffs.upper)

C10Witness ==
  /\ Returned
  /\ decision_rule = "octile"
  /\ Cardinality(DOMAIN preds) = 2
  /\ cutoffs.state = "num"
  /\ cutoffs.lower < cutoffs.upper

====
